---- MODULE Spec2Model ----
(***************************************************************************)
(* Model of the Insurance GLR Streamlit application (src/app.py): the      *)
(* cached LLM client, the two text extractors, the LLM gateway, the        *)
(* template filler and the "Generate Filled Template" button handler.      *)
(*                                                                         *)
(* Texts are sequences of characters.  A DOCX document is a record         *)
(*   [paras : sequence of paragraph texts,                                 *)
(*    cells : sequence of table cells in row-major order, each cell a      *)
(*            sequence of paragraph texts]                                 *)
(* A PDF file is a sequence of pages; a page is the value its              *)
(* extract_text() returns: a text, or NoText (None).                       *)
(* A field mapping is a sequence of [k, v] entries with distinct keys, in  *)
(* the dict's iteration order.                                             *)
(***************************************************************************)
EXTENDS Integers, Sequences, FiniteSets, TLC

VARIABLES
    api_key,             \* TRUE iff OPENROUTER_API_KEY is set in the process environment
    client_cache,        \* st.cache_resource entry of get_llm_client: 0 = empty, else the client's id
    clients_constructed, \* number of OpenAI(...) constructions in this process
    template_file,       \* the template upload widget: NoFile, Malformed or a document
    pdf_files,           \* the report upload widget: a sequence of files
    pc,                  \* position of the script run triggered by the button
    actions,             \* number of button clicks so far
    trace,               \* the components invoked by the current action, in order
    client,              \* id of the client the current gateway call uses (0 = none)
    reports_text,        \* result of extract_text_from_pdfs
    template_text,       \* result of extract_text_from_docx
    field_mapping,       \* result of call_llm_to_get_field_mapping
    response,            \* what the endpoint answered to the current action's request
    error,               \* how the current action failed, "none" if it did not
    download             \* the offered download, NoDownload if none is offered

vars == <<api_key, client_cache, clients_constructed, template_file, pdf_files, pc,
          actions, trace, client, reports_text, template_text, field_mapping,
          response, error, download>>

----------------------------------------------------------------------------
(* Bounds of the model *)

MaxLen == 3       \* length of a paragraph or cell text of a template
MaxKeyLen == 2    \* length of a placeholder
MaxValLen == 1    \* length of a replacement value
MaxFiles == 2     \* report files of one upload
MaxPages == 2     \* pages of one report file
MaxActions == 3   \* button clicks in one process

Chars == {"A", "B"}
NL == "\n"

\* Values outside the text domain are one-element sequences holding a marker.
NoText == <<"None">>              \* page.extract_text() returned None
NotAString == <<"NotAString">>    \* a JSON value that is not a string (number, null, ...)

NoFile == [kind |-> "none"]
Malformed == [kind |-> "malformed"]
Docx(paras, cells) == [kind |-> "docx", paras |-> paras, cells |-> cells]
Pdf(pages) == [kind |-> "pdf", pages |-> pages]

Unset == [kind |-> "unset"]
Dict(entries) == [kind |-> "dict", entries |-> entries]
NotAMapping == [kind |-> "other"]  \* a JSON value under "fields" that is not an object

NoDownload == [offered |-> FALSE]

Raised(kind) == [ok |-> FALSE, error |-> kind]
Returned(value) == [ok |-> TRUE, value |-> value]

TextsUpTo(n) == UNION {[1..m -> Chars] : m \in 0..n}

----------------------------------------------------------------------------
(* Python string operations *)

\* sep.join(parts)
RECURSIVE JoinWith(_, _)
JoinWith(parts, sep) ==
    IF parts = <<>> THEN <<>>
    ELSE IF Len(parts) = 1 THEN parts[1]
    ELSE parts[1] \o sep \o JoinWith(Tail(parts), sep)

\* str.replace with a non-empty key: left-to-right scan, non-overlapping
RECURSIVE ReplaceFrom(_, _, _, _)
ReplaceFrom(text, k, v, i) ==
    IF i > Len(text) THEN <<>>
    ELSE IF i + Len(k) - 1 <= Len(text) /\ SubSeq(text, i, i + Len(k) - 1) = k
         THEN v \o ReplaceFrom(text, k, v, i + Len(k))
         ELSE <<text[i]>> \o ReplaceFrom(text, k, v, i + 1)

\* str.replace with the empty key: v before every character and at the end
RECURSIVE Interleave(_, _)
Interleave(text, v) ==
    IF text = <<>> THEN v
    ELSE v \o <<text[1]>> \o Interleave(Tail(text), v)

\* variant: only the first occurrence is replaced, as text.replace(k, v, 1)
str_replace_first(text, k, v) ==
    IF k = <<>> THEN v \o text
    ELSE IF \E i \in 1..Len(text) : i + Len(k) - 1 <= Len(text)
                                     /\ SubSeq(text, i, i + Len(k) - 1) = k
    THEN LET i == CHOOSE i \in 1..Len(text) :
                     /\ i + Len(k) - 1 <= Len(text)
                     /\ SubSeq(text, i, i + Len(k) - 1) = k
                     /\ \A j \in 1..(i - 1) : SubSeq(text, j, j + Len(k) - 1) # k
         IN  SubSeq(text, 1, i - 1) \o v \o SubSeq(text, i + Len(k), Len(text))
    ELSE text

str_replace(text, k, v) ==
    IF k = <<>> THEN Interleave(text, v) ELSE ReplaceFrom(text, k, v, 1)

----------------------------------------------------------------------------
(* The functions of src/app.py *)

\* variant: a page without text is left out, as `if t: text.append(t)`
PageTexts_skip_empty(files) ==
    LET RECURSIVE All(_)
        All(fs) ==
            IF fs = <<>> THEN <<>>
            ELSE [i \in 1..Len(fs[1].pages) |->
                     IF fs[1].pages[i] = NoText THEN <<>> ELSE fs[1].pages[i]]
                 \o All(Tail(fs))
    IN  SelectSeq(All(files), LAMBDA t : t # <<>>)

\* `page.extract_text() or ""`
PageText(page) == IF page = NoText THEN <<>> ELSE page

\* the list `text` after both loops of extract_text_from_pdfs
RECURSIVE PageTexts(_)
PageTexts(files) ==
    IF files = <<>> THEN <<>>
    ELSE [i \in 1..Len(files[1].pages) |-> PageText(files[1].pages[i])]
         \o PageTexts(Tail(files))

\* PdfReader(pdf) raises on a malformed file
extract_text_from_pdfs(files) ==
    IF \E i \in 1..Len(files) : files[i].kind = "malformed"
    THEN Raised("extraction")
    ELSE Returned(JoinWith(PageTexts(files), <<NL, NL>>))

\* the paragraph texts of all cells, cell after cell
RECURSIVE CellLines(_)
CellLines(cells) ==
    IF cells = <<>> THEN <<>> ELSE cells[1] \o CellLines(Tail(cells))

\* Document(docfile) raises on a malformed file
extract_text_from_docx(docfile) ==
    IF docfile.kind = "malformed"
    THEN Raised("extraction")
    ELSE Returned(JoinWith(docfile.paras \o CellLines(docfile.cells), <<NL>>))

\* python-docx: cell.text is the cell's paragraph texts joined by "\n"
CellText(cell) == JoinWith(cell, <<NL>>)

\* variant: the loop assigns to a result that starts empty, so that the empty
\* mapping yields the empty text and only the last entry takes effect
replace_restart(text, entries) ==
    IF entries = <<>> THEN <<>>
    ELSE str_replace(text, entries[Len(entries)].k, entries[Len(entries)].v)

\* the inner function of fill_template_docx: every entry in iteration order,
\* each applied to the text the previous entries left
RECURSIVE replace(_, _)
replace(text, entries) ==
    IF entries = <<>> THEN text
    ELSE replace(str_replace(text, entries[1].k, entries[1].v), Tail(entries))

\* field_values.items() raises when field_values is not a dict, and
\* text.replace(k, v) raises when v is not a string; both are reached only
\* when the document has a paragraph or a cell to visit
FillRaises(doc, field_values) ==
    /\ Len(doc.paras) + Len(doc.cells) > 0
    /\ \/ field_values.kind # "dict"
       \/ \E i \in 1..Len(field_values.entries) : field_values.entries[i].v = NotAString

\* cell.text = ... leaves the cell with one paragraph holding the new text
fill_template_docx(doc, field_values) ==
    IF doc.kind = "malformed" \/ FillRaises(doc, field_values) THEN Raised("fill")
    ELSE IF field_values.kind # "dict" THEN Returned(doc)
    ELSE Returned(Docx(
            [i \in 1..Len(doc.paras) |-> replace(doc.paras[i], field_values.entries)],
            [i \in 1..Len(doc.cells) |->
                <<replace(CellText(doc.cells[i]), field_values.entries)>>]))

\* variant: data["fields"] instead of data.get("fields", {})
ParseFields_strict(content) ==
    IF content.json = "invalid" THEN Raised("parse")
    ELSE IF content.json = "not_object" THEN Raised("shape")
    ELSE IF ~content.has_fields THEN Raised("shape")
    ELSE Returned(content.fields)

\* json.loads(raw) and data.get("fields", {}) on the response content
ParseFields(content) ==
    IF content.json = "invalid" THEN Raised("parse")         \* json.loads raises
    ELSE IF content.json = "not_object" THEN Raised("shape") \* data.get raises
    ELSE IF ~content.has_fields THEN Returned(Dict(<<>>))
    ELSE Returned(content.fields)

\* variant: the decorator is missing, every call constructs a client
get_llm_client_uncached(cache, key, constructed) ==
    IF ~key THEN [ok |-> FALSE, client |-> 0, cache |-> 0,
                  constructed |-> constructed, built |-> FALSE]
    ELSE [ok |-> TRUE, client |-> constructed + 1, cache |-> 0,
          constructed |-> constructed + 1, built |-> TRUE]

\* variant: the check of the key is missing, the client is built with no key
get_llm_client_unchecked(cache, key, constructed) ==
    IF cache # 0 THEN [ok |-> TRUE, client |-> cache, cache |-> cache,
                       constructed |-> constructed, built |-> FALSE]
    ELSE [ok |-> TRUE, client |-> constructed + 1, cache |-> constructed + 1,
          constructed |-> constructed + 1, built |-> TRUE]

\* get_llm_client under st.cache_resource: a cached client is returned without
\* running the body; the body raises before constructing when the key is
\* absent, and a raised call leaves the cache empty
get_llm_client(cache, key, constructed) ==
    IF cache # 0 THEN [ok |-> TRUE, client |-> cache, cache |-> cache,
                       constructed |-> constructed, built |-> FALSE]
    ELSE IF ~key THEN [ok |-> FALSE, client |-> 0, cache |-> 0,
                       constructed |-> constructed, built |-> FALSE]
    ELSE [ok |-> TRUE, client |-> constructed + 1, cache |-> constructed + 1,
          constructed |-> constructed + 1, built |-> TRUE]

----------------------------------------------------------------------------
(* The inputs the user and the LLM endpoint supply *)

SeqsUpTo(S, n) == UNION {[1..m -> S] : m \in 0..n}

Entries == [k : TextsUpTo(MaxKeyLen), v : TextsUpTo(MaxValLen) \cup {NotAString}]

\* what "fields" may hold: no entry, one entry, or a value that is no object
Mappings == {Dict(<<>>), NotAMapping} \cup {Dict(<<e>>) : e \in Entries}

\* templates with at most one body paragraph and at most one table cell
Documents ==
    {Docx(p, c) : p \in {<<>>} \cup {<<t>> : t \in TextsUpTo(MaxLen)},
                  c \in {<<>>} \cup {<< <<t>> >> : t \in TextsUpTo(MaxLen)}}

\* what extract_text() may return for a page
Pages == {<<>>, <<"A">>, <<"B", NL>>, NoText}

PdfFiles == {Pdf(pages) : pages \in SeqsUpTo(Pages, MaxPages)} \cup {Malformed}

\* the uploads of m report files
ReportSets(m) == [1..m -> PdfFiles]

\* the uploads and responses the button handler is exercised with
TemplateUploads ==
    { NoFile,
      Malformed,
      Docx(<<>>, <<>>),
      Docx(<< <<"A">> >>, <<>>),
      Docx(<< <<"A", "B">>, <<"B">> >>, << << <<"A">>, <<"B">> >> >>) }

ReportUploads ==
    { <<>>,
      << Pdf(<< <<"A">> >>) >>,
      << Pdf(<< NoText, <<"B">> >>), Pdf(<<>>), Pdf(<< <<"A">> >>) >>,
      << Pdf(<< <<"A">> >>), Malformed >> }

NoResponse == [status |-> "none"]
ApiError == [status |-> "error"]
Content(c) == [status |-> "ok", content |-> c]
InvalidJson == [json |-> "invalid"]
NotAnObject == [json |-> "not_object"]
ObjectWithoutFields == [json |-> "object", has_fields |-> FALSE]
ObjectWithFields(f) == [json |-> "object", has_fields |-> TRUE, fields |-> f]

Responses ==
    { ApiError,
      Content(InvalidJson),
      Content(NotAnObject),
      Content(ObjectWithoutFields),
      Content(ObjectWithFields(NotAMapping)),
      Content(ObjectWithFields(Dict(<<>>))),
      Content(ObjectWithFields(Dict(<< [k |-> <<"A">>, v |-> <<"B">>],
                                       [k |-> <<"B">>, v |-> <<"C">>] >>))),
      Content(ObjectWithFields(Dict(<< [k |-> <<"A">>, v |-> NotAString] >>))) }

----------------------------------------------------------------------------
(* The script run *)

Idle == pc \in {"idle", "stopped", "failed", "done"}

\* a rerun of the script starts with fresh locals and an empty page
FreshRun ==
    /\ trace' = <<>>
    /\ client' = 0
    /\ reports_text' = <<>>
    /\ template_text' = <<>>
    /\ field_mapping' = Unset
    /\ response' = NoResponse
    /\ download' = NoDownload

Init ==
    /\ api_key \in BOOLEAN
    /\ client_cache = 0
    /\ clients_constructed = 0
    /\ template_file = NoFile
    /\ pdf_files = <<>>
    /\ pc = "idle"
    /\ actions = 0
    /\ trace = <<>>
    /\ client = 0
    /\ reports_text = <<>>
    /\ template_text = <<>>
    /\ field_mapping = Unset
    /\ response = NoResponse
    /\ error = "none"
    /\ download = NoDownload

\* the user changes the template upload; the script reruns with the button unpressed
UploadTemplate ==
    /\ Idle
    /\ \E f \in TemplateUploads : template_file' = f
    /\ pc' = "idle"
    /\ error' = "none"
    /\ FreshRun
    /\ UNCHANGED <<api_key, client_cache, clients_constructed, pdf_files, actions>>

\* the user changes the report uploads; the script reruns with the button unpressed
UploadReports ==
    /\ Idle
    /\ \E fs \in ReportUploads : pdf_files' = fs
    /\ pc' = "idle"
    /\ error' = "none"
    /\ FreshRun
    /\ UNCHANGED <<api_key, client_cache, clients_constructed, template_file, actions>>

\* variant: the check of the report uploads is missing
PreconditionError_template_only(template, pdfs) ==
    IF template.kind = "none" THEN "precondition_template" ELSE "none"

\* `if not template_file` and `if not pdf_files`, each with st.error and st.stop
PreconditionError(template, pdfs) ==
    IF template.kind = "none" THEN "precondition_template"
    ELSE IF pdfs = <<>> THEN "precondition_reports"
    ELSE "none"

\* the button is pressed: the two precondition checks
Click ==
    /\ Idle
    /\ actions < MaxActions
    /\ actions' = actions + 1
    /\ FreshRun
    /\ error' = PreconditionError(template_file, pdf_files)
    /\ pc' = IF error' = "none" THEN "extract_pdfs" ELSE "stopped"
    /\ UNCHANGED <<api_key, client_cache, clients_constructed, template_file, pdf_files>>

ExtractPdfs ==
    /\ pc = "extract_pdfs"
    /\ trace' = Append(trace, "extract_text_from_pdfs")
    /\ LET r == extract_text_from_pdfs(pdf_files) IN
         IF r.ok
         THEN reports_text' = r.value /\ pc' = "extract_docx" /\ error' = error
         ELSE reports_text' = reports_text /\ pc' = "failed" /\ error' = r.error
    /\ UNCHANGED <<api_key, client_cache, clients_constructed, template_file, pdf_files,
                   actions, client, template_text, field_mapping, response, download>>

ExtractDocx ==
    /\ pc = "extract_docx"
    /\ trace' = Append(trace, "extract_text_from_docx")
    /\ LET r == extract_text_from_docx(template_file) IN
         IF r.ok
         THEN template_text' = r.value /\ pc' = "call_llm" /\ error' = error
         ELSE template_text' = template_text /\ pc' = "failed" /\ error' = r.error
    /\ UNCHANGED <<api_key, client_cache, clients_constructed, template_file, pdf_files,
                   actions, client, reports_text, field_mapping, response, download>>

\* call_llm_to_get_field_mapping up to the request: the client, then
\* client.chat.completions.create, which blocks until the endpoint answers
CallLLM ==
    /\ pc = "call_llm"
    /\ LET g == get_llm_client(client_cache, api_key, clients_constructed) IN
         /\ client_cache' = g.cache
         /\ clients_constructed' = g.constructed
         /\ client' = g.client
         /\ IF g.ok
            THEN /\ trace' = trace \o <<"call_llm_to_get_field_mapping">>
                             \o (IF g.built THEN <<"OpenAI">> ELSE <<>>)
                             \o <<"create">>
                 /\ pc' = "await_response"
                 /\ error' = error
            ELSE /\ trace' = Append(trace, "call_llm_to_get_field_mapping")
                 /\ pc' = "failed"
                 /\ error' = "config"
    /\ UNCHANGED <<api_key, template_file, pdf_files, actions, reports_text,
                   template_text, field_mapping, response, download>>

\* variant: a failed gateway call is tried again
Propagate_retry == "call_llm"

\* variant: a failed gateway call is swallowed and the run goes on to the filler
Propagate_swallow == "fill"

\* nothing catches an exception of the gateway call: the script run ends there
Propagate == "failed"

\* the endpoint answers; the rest of call_llm_to_get_field_mapping
LLMRespond ==
    /\ pc = "await_response"
    /\ \E r \in Responses :
         /\ response' = r
         /\ IF r.status = "error"
            THEN field_mapping' = field_mapping /\ pc' = Propagate /\ error' = "api"
            ELSE LET f == ParseFields(r.content) IN
                 IF f.ok
                 THEN field_mapping' = f.value /\ pc' = "fill" /\ error' = error
                 ELSE field_mapping' = field_mapping /\ pc' = Propagate /\ error' = f.error
    /\ UNCHANGED <<api_key, client_cache, clients_constructed, template_file, pdf_files,
                   actions, trace, client, reports_text, template_text, download>>

\* st.json(field_mapping), fill_template_docx and the download button
FillAndOffer ==
    /\ pc = "fill"
    /\ LET r == fill_template_docx(template_file, field_mapping) IN
         IF r.ok
         THEN /\ download' = [offered |-> TRUE, data |-> r.value,
                              file_name |-> "filled_template.docx"]
              /\ trace' = trace \o <<"fill_template_docx", "download_button">>
              /\ pc' = "done"
              /\ error' = error
         ELSE /\ download' = download
              /\ trace' = Append(trace, "fill_template_docx")
              /\ pc' = "failed"
              /\ error' = r.error
    /\ UNCHANGED <<api_key, client_cache, clients_constructed, template_file, pdf_files,
                   actions, client, reports_text, template_text, field_mapping,
                   response>>

Next ==
    \/ UploadTemplate
    \/ UploadReports
    \/ Click
    \/ ExtractPdfs
    \/ ExtractDocx
    \/ CallLLM
    \/ LLMRespond
    \/ FillAndOffer

Spec == Init /\ [][Next]_vars

----------------------------------------------------------------------------
(* fill_template_docx on every bounded template and mapping: the script run *)
(* stands before the filler, the gateway having returned the mapping        *)

InitFill ==
    /\ api_key = TRUE
    /\ client_cache = 1
    /\ clients_constructed = 1
    /\ template_file \in Documents
    /\ pdf_files = << Pdf(<< <<"A">> >>) >>
    /\ pc = "fill"
    /\ actions = 1
    /\ trace = <<"extract_text_from_pdfs", "extract_text_from_docx",
                 "call_llm_to_get_field_mapping", "OpenAI", "create">>
    /\ client = 1
    /\ reports_text = <<"A">>
    /\ template_text = extract_text_from_docx(template_file).value
    /\ field_mapping \in Mappings
    /\ response = Content(ObjectWithFields(field_mapping))
    /\ error = "none"
    /\ download = NoDownload

NextFill == FillAndOffer

SpecFill == InitFill /\ [][NextFill]_vars

(* extract_text_from_pdfs on every bounded set of report files: the script  *)
(* run stands after the precondition checks                                 *)

InitPdf ==
    /\ api_key = TRUE
    /\ client_cache = 0
    /\ clients_constructed = 0
    /\ template_file = Docx(<< <<"A">> >>, <<>>)
    /\ \E m \in 1..MaxFiles : pdf_files \in ReportSets(m)
    /\ pc = "extract_pdfs"
    /\ actions = 1
    /\ trace = <<>>
    /\ client = 0
    /\ reports_text = <<>>
    /\ template_text = <<>>
    /\ field_mapping = Unset
    /\ response = NoResponse
    /\ error = "none"
    /\ download = NoDownload

NextPdf == ExtractPdfs

SpecPdf == InitPdf /\ [][NextPdf]_vars

----------------------------------------------------------------------------
(* Properties *)

Count(seq, e) == Cardinality({i \in 1..Len(seq) : seq[i] = e})
Invoked(e) == Count(trace, e) > 0

\* k occurs in text as a substring
Contains(text, k) ==
    \E i \in 1..(Len(text) - Len(k) + 1) : SubSeq(text, i, i + Len(k) - 1) = k

PreconditionErrors == {"precondition_template", "precondition_reports"}

\* C1: an action started with the template upload missing or with no report
\* file halts with a user-visible error, and in that action no extractor, no
\* gateway call and no filler is invoked and no download is offered.
C1_PreconditionHalts ==
    /\ (pc # "idle" /\ (template_file.kind = "none" \/ pdf_files = <<>>)) =>
           /\ pc = "stopped"
           /\ error \in PreconditionErrors
           /\ trace = <<>>
           /\ ~download.offered
    /\ error \in PreconditionErrors =>
           /\ pc = "stopped"
           /\ trace = <<>>
           /\ ~download.offered
           /\ (template_file.kind = "none" \/ pdf_files = <<>>)

\* template missing, reports present, the button pressed
C1_Witness ==
    /\ pc = "stopped"
    /\ template_file.kind = "none"
    /\ pdf_files # <<>>
    /\ error = "precondition_template"

GatewayCalled == Invoked("call_llm_to_get_field_mapping")

C6_ClientOnce ==
    [][ /\ clients_constructed' # clients_constructed =>
              /\ pc = "call_llm"
              /\ clients_constructed = 0
              /\ client_cache = 0
              /\ clients_constructed' = 1
        /\ (pc = "call_llm" /\ api_key) =>
              /\ client' = 1
              /\ client_cache' = 1
              /\ clients_constructed' = 1
        /\ pc # "call_llm" => client_cache' = client_cache ]_vars

\* a later action sends its request with the cached client, constructing none
C6_Witness ==
    /\ actions >= 2
    /\ pc = "await_response"
    /\ client = 1
    /\ clients_constructed = 1
    /\ ~Invoked("OpenAI")

\* C7: with the credential absent nothing fails before the gateway is used;
\* the gateway call raises the configuration error before a client is
\* constructed or a request is sent, the action ends there with no fill and
\* no download, and no client is ever cached, so that every action reaching
\* the gateway fails the same way.
C7_MissingCredential ==
    /\ ~api_key =>
           /\ client_cache = 0
           /\ clients_constructed = 0
           /\ client = 0
           /\ ~Invoked("OpenAI")
           /\ ~Invoked("create")
           /\ ~Invoked("fill_template_docx")
           /\ ~download.offered
           /\ pc \notin {"await_response", "fill", "done"}
           /\ GatewayCalled <=> error = "config"
           /\ error = "config" => pc = "failed"
    /\ error = "config" => ~api_key

\* the second action of a process without the credential fails at the gateway
C7_Witness ==
    /\ ~api_key
    /\ actions >= 2
    /\ error = "config"
    /\ trace = <<"extract_text_from_pdfs", "extract_text_from_docx",
                 "call_llm_to_get_field_mapping">>

CompleteRuns ==
    { <<"extract_text_from_pdfs", "extract_text_from_docx",
        "call_llm_to_get_field_mapping", "OpenAI", "create",
        "fill_template_docx", "download_button">>,
      <<"extract_text_from_pdfs", "extract_text_from_docx",
        "call_llm_to_get_field_mapping", "create",
        "fill_template_docx", "download_button">> }

\* C8: a download is offered only by a run in which report extraction,
\* template extraction, the gateway call and the fill completed in this order
\* without error; when the response content is not valid JSON the run ends
\* with the parse failure, the filler is not invoked and nothing is offered.
C8_DownloadOnlyAfterAll ==
    /\ (download.offered \/ Invoked("download_button")) =>
           /\ trace \in CompleteRuns
           /\ error = "none"
           /\ pc = "done"
           /\ download.offered
           /\ response.status = "ok"
           /\ fill_template_docx(template_file, field_mapping) = Returned(download.data)
    /\ (response = Content(InvalidJson) \/ error = "parse") =>
           /\ response = Content(InvalidJson)
           /\ error = "parse"
           /\ pc = "failed"
           /\ ~Invoked("fill_template_docx")
           /\ ~download.offered

\* the response was not valid JSON
C8_Witness ==
    /\ response = Content(InvalidJson)
    /\ pc = "failed"
    /\ trace[Len(trace)] = "create"

\* the texts a document shows: its paragraph texts, then its cell texts
TextContent(doc) ==
    doc.paras \o [i \in 1..Len(doc.cells) |-> CellText(doc.cells[i])]

\* C2: text inserted as the value of one mapping entry is not replaced by
\* another entry: a paragraph or cell whose text is the first key of the
\* mapping is filled with exactly that key's value ("A" under
\* {"A": "B", "B": "C"} becomes "B").
C2_ValuesNotRescanned ==
    (pc = "done" /\ field_mapping.kind = "dict" /\ field_mapping.entries # <<>>) =>
        LET first == field_mapping.entries[1]
            before == TextContent(template_file)
            after == TextContent(download.data)
        IN  \A i \in 1..Len(before) :
                (first.k # <<>> /\ before[i] = first.k) => after[i] = first.v

\* the mapping has one entry, with a non-empty key that its value does not contain
SingleEntry ==
    /\ field_mapping.kind = "dict"
    /\ Len(field_mapping.entries) = 1
    /\ field_mapping.entries[1].k # <<>>
    /\ field_mapping.entries[1].v # NotAString
    /\ ~Contains(field_mapping.entries[1].v, field_mapping.entries[1].k)

\* C3 as stated: under a single entry {k: v}, k non-empty and not a substring
\* of v, no paragraph and no cell of the output contains k.
C3_NoTraceOfKey ==
    (pc = "done" /\ SingleEntry) =>
        LET after == TextContent(download.data)
        IN  \A i \in 1..Len(after) : ~Contains(after[i], field_mapping.entries[1].k)

\* text.split(k) for a non-empty k: the pieces of text between the occurrences
\* of k met going left to right, each occurrence starting after the previous one
RECURSIVE Pieces(_, _)
Pieces(text, k) ==
    IF ~Contains(text, k) THEN <<text>>
    ELSE LET i == CHOOSE i \in 1..(Len(text) - Len(k) + 1) :
                     /\ SubSeq(text, i, i + Len(k) - 1) = k
                     /\ ~Contains(SubSeq(text, 1, i + Len(k) - 2), k)
         IN  <<SubSeq(text, 1, i - 1)>> \o Pieces(SubSeq(text, i + Len(k), Len(text)), k)

\* C3 as amended: under a single entry {k: v}, k non-empty and not a substring
\* of v, each paragraph and cell text is filled by replacing with v every
\* occurrence of k met going left to right without overlap: the result is
\* the pieces between those occurrences, none of which contains k, joined
\* by v; it contains no k when k is a single character.
C3_OccurrencesReplaced ==
    (pc = "done" /\ SingleEntry) =>
        LET k == field_mapping.entries[1].k
            v == field_mapping.entries[1].v
            before == TextContent(template_file)
            after == TextContent(download.data)
        IN  /\ Len(after) = Len(before)
            /\ \A i \in 1..Len(before) :
                   /\ after[i] = JoinWith(Pieces(before[i], k), v)
                   /\ \A j \in 1..Len(Pieces(before[i], k)) :
                          ~Contains(Pieces(before[i], k)[j], k)
                   /\ Len(k) = 1 => ~Contains(after[i], k)

\* a text holding the key twice was filled
C3_Witness ==
    /\ pc = "done"
    /\ SingleEntry
    /\ \E i \in 1..Len(template_file.paras) :
           Len(Pieces(template_file.paras[i], field_mapping.entries[1].k)) >= 3

\* C4: filled with the empty mapping, the output has the paragraph texts
\* and the cell texts of the template, unchanged and in the same order.
C4_EmptyMappingIdentity ==
    (pc = "done" /\ field_mapping = Dict(<<>>)) =>
        TextContent(download.data) = TextContent(template_file)

\* a template with a non-empty paragraph and a non-empty cell was filled with
\* the empty mapping
C4_Witness ==
    /\ pc = "done"
    /\ field_mapping = Dict(<<>>)
    /\ Len(template_file.paras) > 0
    /\ Len(template_file.cells) > 0
    /\ template_file.paras[1] # <<>>
    /\ CellText(template_file.cells[1]) # <<>>

\* the values extract_text() returned, file after file, page after page
RECURSIVE AllPages(_)
AllPages(files) ==
    IF files = <<>> THEN <<>> ELSE files[1].pages \o AllPages(Tail(files))

\* what a page contributes to the report text
Shown(page) == IF page = NoText THEN <<>> ELSE page

\* where the j-th page's text starts in the report text (0-based)
RECURSIVE Offset(_, _)
Offset(pages, j) ==
    IF j = 1 THEN 0 ELSE Offset(pages, j - 1) + Len(Shown(pages[j - 1])) + 2

\* C9: the report text is the page texts in upload order, then page order,
\* each followed by the separator "\n\n" except the last; a page without
\* text contributes the empty string, so that N pages give N-1 separators.
C9_PagesJoined ==
    pc = "extract_docx" =>
        LET pages == AllPages(pdf_files)
            N == Len(pages)
        IN  IF N = 0 THEN reports_text = <<>>
            ELSE /\ Len(reports_text) = Offset(pages, N) + Len(Shown(pages[N]))
                 /\ \A j \in 1..N :
                        SubSeq(reports_text, Offset(pages, j) + 1,
                               Offset(pages, j) + Len(Shown(pages[j]))) = Shown(pages[j])
                 /\ \A j \in 2..N :
                        SubSeq(reports_text, Offset(pages, j) - 1, Offset(pages, j))
                            = <<NL, NL>>

\* two files, a page without text among at least three pages
C9_Witness ==
    /\ pc = "extract_docx"
    /\ Len(pdf_files) = 2
    /\ Len(AllPages(pdf_files)) >= 3
    /\ \E j \in 1..Len(AllPages(pdf_files)) : AllPages(pdf_files)[j] = NoText


\* C10: a response that is a JSON object without "fields" yields the empty
\* mapping and no error; the run goes on, the filler is invoked with the
\* empty mapping and the download offered has the template's text content.
C10_MissingFields ==
    response = Content(ObjectWithoutFields) =>
        /\ error = "none"
        /\ field_mapping = Dict(<<>>)
        /\ pc \in {"fill", "done"}
        /\ pc = "fill" => fill_template_docx(template_file, field_mapping).ok
        /\ pc = "done" =>
              /\ Count(trace, "fill_template_docx") = 1
              /\ download.offered
              /\ TextContent(download.data) = TextContent(template_file)

\* such a run completed on a template with paragraphs and a table
C10_Witness ==
    /\ response = Content(ObjectWithoutFields)
    /\ pc = "done"
    /\ Len(template_file.paras) > 0
    /\ Len(template_file.cells) > 0

====
